---- MODULE Spec2Model ----
(***************************************************************************)
(* A model of t-bowersox/bouncer (src/src/index.ts): the Bouncer token     *)
(* lifecycle (createToken, revokeToken, validateToken) over an external    *)
(* TokenStore.                                                             *)
(*                                                                         *)
(* Strings are sequences of character codes (ASCII), so that the JSON and  *)
(* base64 conversions, the "." separator and the signature encoding are    *)
(* computed as the code computes them.                                     *)
(***************************************************************************)
EXTENDS Integers, Sequences, FiniteSets, Bags, TLC

(***************************************************************************)
(* Bounds of the model.                                                    *)
(***************************************************************************)
\* Date.now() ranges over 0..MaxTime
MaxTime == 2
\* at most MaxTokens calls of createToken
MaxTokens == 2
\* the rule references are 1..NumRules
NumRules == 3
\* at most MaxChanges changes of the Ruleset while an evaluation is in progress
MaxChanges == 1
\* at most MaxReadds changes of the async rules while an evaluateAsync call is
\* suspended, in the specification that deletes rules and adds them again
MaxReadds == 2

(***************************************************************************)
(* Characters and string literals.                                         *)
(***************************************************************************)
Dot == 46
Pad == 61
Quote == 34
Colon == 58
Comma == 44
LBrace == 123
RBrace == 125
Backslash == 92
Digit0 == 48

\* "ABCDEFGHIJKLMNOPQRSTUVWXYZabcdefghijklmnopqrstuvwxyz0123456789+/"
B64Alphabet ==
  <<65, 66, 67, 68, 69, 70, 71, 72, 73, 74, 75, 76, 77, 78, 79, 80, 81, 82,
    83, 84, 85, 86, 87, 88, 89, 90, 97, 98, 99, 100, 101, 102, 103, 104, 105,
    106, 107, 108, 109, 110, 111, 112, 113, 114, 115, 116, 117, 118, 119, 120,
    121, 122, 48, 49, 50, 51, 52, 53, 54, 55, 56, 57, 43, 47>>

\* "sessionId", "userId", "expirationTime", "null"
KeySessionId == <<115, 101, 115, 115, 105, 111, 110, 73, 100>>
KeyUserId == <<117, 115, 101, 114, 73, 100>>
KeyExpirationTime ==
  <<101, 120, 112, 105, 114, 97, 116, 105, 111, 110, 84, 105, 109, 101>>
NullText == <<110, 117, 108, 108>>

\* "unparsed-token": a string without a separator
UnparsedToken ==
  <<117, 110, 112, 97, 114, 115, 101, 100, 45, 116, 111, 107, 101, 110>>

Min(S) == CHOOSE x \in S : \A y \in S : x <= y

(***************************************************************************)
(* JavaScript values: strings, numbers, null and undefined.                *)
(***************************************************************************)
JsString(s) == [t |-> "string", n |-> 0, s |-> s]
JsNumber(n) == [t |-> "number", n |-> n, s |-> <<>>]
JsNull == [t |-> "null", n |-> 0, s |-> <<>>]
Undefined == [t |-> "undefined", n |-> 0, s |-> <<>>]

\* interface Token
Token(sessionId, userId, expirationTime) ==
  [sessionId |-> sessionId, userId |-> userId, expirationTime |-> expirationTime]

\* an object none of whose Token properties is set
EmptyObject == Token(Undefined, Undefined, Undefined)

(***************************************************************************)
(* Base64 (the "base64" encoding of Node's Buffer, which the signature     *)
(* encoding and Base64.encode / Base64.decode use).                        *)
(***************************************************************************)
\* 3 bytes -> 4 characters, "=" padding the last group
Base64Encode(bytes) ==
  LET n == Len(bytes)
      byte(i) == IF i <= n THEN bytes[i] ELSE 0
      char(p) ==
        LET g == (p - 1) \div 4
            k == (p - 1) % 4
            b0 == byte(3 * g + 1)
            b1 == byte(3 * g + 2)
            b2 == byte(3 * g + 3)
        IN  CASE k = 0 -> B64Alphabet[(b0 \div 4) + 1]
              [] k = 1 -> B64Alphabet[((b0 % 4) * 16 + (b1 \div 16)) + 1]
              [] k = 2 -> IF 3 * g + 2 > n THEN Pad
                          ELSE B64Alphabet[((b1 % 16) * 4 + (b2 \div 64)) + 1]
              [] k = 3 -> IF 3 * g + 3 > n THEN Pad
                          ELSE B64Alphabet[(b2 % 64) + 1]
  IN  [p \in 1..(4 * ((n + 2) \div 3)) |-> char(p)]

\* the value of a base64 character, 64 for a character outside the alphabet;
\* the decoder takes the url-safe "-" and "_" for "+" and "/"
Unbase64 ==
  [c \in 0..255 |->
     CASE c >= 65 /\ c <= 90 -> c - 65
       [] c >= 97 /\ c <= 122 -> c - 71
       [] c >= 48 /\ c <= 57 -> c + 4
       [] c = 43 \/ c = 45 -> 62
       [] c = 47 \/ c = 95 -> 63
       [] OTHER -> 64]

IsBase64Char(c) == Unbase64[c] < 64

\* The decoder stops at the first "=", skips every character outside the
\* alphabet and drops the bits of an incomplete last byte.
Base64Decode(str) ==
  LET pads == {i \in 1..Len(str) : str[i] = Pad}
      data == IF pads = {} THEN str ELSE SubSeq(str, 1, Min(pads) - 1)
      legal == SelectSeq(data, IsBase64Char)
  IN  [j \in 1..((Len(legal) * 6) \div 8) |->
        LET q == (((j - 1) * 8) \div 6) + 1
            r == ((j - 1) * 8) % 6
            a == Unbase64[legal[q]]
            b == Unbase64[legal[q + 1]]
        IN  IF r = 0 THEN a * 4 + (b \div 16)
            ELSE IF r = 2 THEN (a % 16) * 16 + (b \div 4)
            ELSE (a % 4) * 64 + b]

(***************************************************************************)
(* JSON: JSON.stringify of a Token, and JSON.parse restricted to the texts *)
(* the model produces: a flat object whose values are strings without      *)
(* escapes, non-negative integers or null, or one such value alone.        *)
(***************************************************************************)
IsDigit(c) == c >= Digit0 /\ c <= Digit0 + 9

RECURSIVE NumberText(_)
NumberText(n) ==
  IF n < 10 THEN <<Digit0 + n>>
  ELSE Append(NumberText(n \div 10), Digit0 + (n % 10))

RECURSIVE DigitsValue(_)
DigitsValue(ds) ==
  IF ds = <<>> THEN 0
  ELSE 10 * DigitsValue(SubSeq(ds, 1, Len(ds) - 1)) + (ds[Len(ds)] - Digit0)

\* the JSON text of a property value; NaN and undefined never reach it here
ValueText(v) ==
  CASE v.t = "string" -> <<Quote>> \o v.s \o <<Quote>>
    [] v.t = "number" -> NumberText(v.n)
    [] OTHER -> NullText

\* JSON.stringify(token): the properties in the order the object was built
JsonStringify(token) ==
  <<LBrace, Quote>> \o KeySessionId \o <<Quote, Colon>>
    \o ValueText(token.sessionId)
    \o <<Comma, Quote>> \o KeyUserId \o <<Quote, Colon>>
    \o ValueText(token.userId)
    \o <<Comma, Quote>> \o KeyExpirationTime \o <<Quote, Colon>>
    \o ValueText(token.expirationTime)
    \o <<RBrace>>

ParseFail == [ok |-> FALSE, val |-> Undefined, next |-> 0]

\* one JSON value starting at text[i]: the value and the index after it
ParseValue(text, i) ==
  IF i > Len(text) THEN ParseFail
  ELSE IF text[i] = Quote THEN
    IF \A j \in (i + 1)..Len(text) : text[j] # Quote THEN ParseFail
        ELSE LET j == CHOOSE j \in (i + 1)..Len(text) :
                        /\ text[j] = Quote
                        /\ \A k \in (i + 1)..(j - 1) : text[k] # Quote
                 body == SubSeq(text, i + 1, j - 1)
             IN  IF \E k \in 1..Len(body) : body[k] = Backslash \/ body[k] < 32
                 THEN ParseFail
                 ELSE [ok |-> TRUE, val |-> JsString(body), next |-> j + 1]
  ELSE IF IsDigit(text[i]) THEN
    LET stop == CHOOSE j \in (i + 1)..(Len(text) + 1) :
                  /\ j > Len(text) \/ ~IsDigit(text[j])
                  /\ \A k \in (i + 1)..(j - 1) : IsDigit(text[k])
        ds == SubSeq(text, i, stop - 1)
    IN  IF Len(ds) > 1 /\ ds[1] = Digit0 THEN ParseFail
        ELSE [ok |-> TRUE, val |-> JsNumber(DigitsValue(ds)), next |-> stop]
  ELSE IF i + 3 <= Len(text) /\ SubSeq(text, i, i + 3) = NullText THEN
    [ok |-> TRUE, val |-> JsNull, next |-> i + 4]
  ELSE ParseFail

\* a property of the three the code reads is kept, any other is dropped
SetProperty(obj, key, val) ==
  CASE key = KeySessionId -> [obj EXCEPT !.sessionId = val]
    [] key = KeyUserId -> [obj EXCEPT !.userId = val]
    [] key = KeyExpirationTime -> [obj EXCEPT !.expirationTime = val]
    [] OTHER -> obj

SyntaxError == [ok |-> FALSE, isObject |-> FALSE, obj |-> EmptyObject, val |-> Undefined]

\* the members of an object from text[i] on, up to the closing brace that
\* must end the text
RECURSIVE ParseMembers(_, _, _)
ParseMembers(text, i, obj) ==
  LET key == ParseValue(text, i)
  IN  IF ~key.ok \/ key.val.t # "string" THEN SyntaxError
      ELSE IF key.next > Len(text) \/ text[key.next] # Colon THEN SyntaxError
      ELSE LET v == ParseValue(text, key.next + 1)
           IN  IF ~v.ok \/ v.next > Len(text) THEN SyntaxError
               ELSE IF text[v.next] = Comma THEN
                 ParseMembers(text, v.next + 1, SetProperty(obj, key.val.s, v.val))
               ELSE IF text[v.next] = RBrace /\ v.next = Len(text) THEN
                 [ok |-> TRUE, isObject |-> TRUE,
                  obj |-> SetProperty(obj, key.val.s, v.val), val |-> Undefined]
               ELSE SyntaxError

\* JSON.parse(text): ok = FALSE stands for the SyntaxError it throws
JsonParse(text) ==
  IF text = <<>> THEN SyntaxError
  ELSE IF text[1] = LBrace THEN
    IF text = <<LBrace, RBrace>>
    THEN [ok |-> TRUE, isObject |-> TRUE, obj |-> EmptyObject, val |-> Undefined]
    ELSE ParseMembers(text, 2, EmptyObject)
  ELSE LET v == ParseValue(text, 1)
       IN  IF v.ok /\ v.next = Len(text) + 1
           THEN [ok |-> TRUE, isObject |-> FALSE, obj |-> EmptyObject, val |-> v.val]
           ELSE SyntaxError

(***************************************************************************)
(* State.                                                                  *)
(***************************************************************************)
VARIABLES
  now,         \* Date.now()
  privateKey,  \* Bouncer.privateKey, set by the constructor
  publicKey,   \* Bouncer.publicKey, set by the constructor
  denyList,    \* the TokenStore: the session ids that have a revocation record
  storeRaises, \* whether the TokenStore may raise an error instead of answering
  issued,      \* history: the tokens createToken has returned, in order
  revoked,     \* history: the session ids for which revokeToken returned true
  call,        \* the last call of the host and its outcome, NoCall between calls
  syncRules,   \* Ruleset.syncRules: the references of the Set, in insertion order
  asyncRules,  \* Ruleset.asyncRules: the references of the Set, in insertion order
  evals,       \* the evaluations of the Ruleset in progress or not yet read
  reference    \* history: the references given to each collection and not taken
               \* from it since, as two sets

bouncerVars == <<now, privateKey, publicKey, denyList, storeRaises, issued, revoked, call>>
rulesetVars == <<syncRules, asyncRules, evals, reference>>

vars == <<now, privateKey, publicKey, denyList, storeRaises, issued, revoked, call,
          syncRules, asyncRules, evals, reference>>

(***************************************************************************)
(* Signatures: crypto.createSign / crypto.createVerify with a key pair.    *)
(* The digest is a 15-bit weighted checksum standing for SHA-256, the      *)
(* signature its two bytes; a key pair is one key id, and a signature      *)
(* verifies under the public key of the private key that made it.          *)
(***************************************************************************)
HashMod == 128 * 256

\* the digest of a payload, keyed: the sum of (str[i] + 1) * (2i + 1)
Digest(key, str) ==
  (key * 31 + BagCardinality([i \in 1..Len(str) |-> (str[i] + 1) * (2 * i + 1)]))
    % HashMod

\* sign(privateKey): the signature bytes of a payload
SignBytes(key, payload) ==
  LET h == Digest(key, payload)
  IN  <<h \div 256, h % 256>>

\* signToken signing the JSON text in place of the encoded token
signToken_SignsJson(encodedToken) ==
  Base64Encode(SignBytes(privateKey, Base64Decode(encodedToken)))

\* private signToken(encodedToken)
signToken(encodedToken) == Base64Encode(SignBytes(privateKey, encodedToken))

\* verifyToken accepting every signature
verifyToken_Always(token, signature) == [threw |-> FALSE, verified |-> TRUE]

\* private verifyToken(token, signature): verify() raises a TypeError for a
\* signature that is undefined, and decodes a string as base64
verifyToken(token, signature) ==
  IF signature.t = "undefined" THEN [threw |-> TRUE, verified |-> FALSE]
  ELSE [threw |-> FALSE,
        verified |-> Base64Decode(signature.s) = SignBytes(publicKey, token.s)]

\* encodeToken leaving the JSON text as it is
encodeToken_Json(token) == JsonStringify(token)

\* private encodeToken(token)
encodeToken(token) == Base64Encode(JsonStringify(token))

\* decodeToken parsing the encoded token without decoding it
decodeToken_NoBase64(encodedToken) == JsonParse(encodedToken.s)

\* private decodeToken(encodedToken): Base64.decode, then JSON.parse
decodeToken(encodedToken) == JsonParse(Base64Decode(encodedToken.s))

\* String.prototype.split("."): the parts of str from index start on
RECURSIVE Split(_, _)
Split(str, start) ==
  LET dots == {i \in start..Len(str) : str[i] = Dot}
  IN  IF dots = {} THEN <<SubSeq(str, start, Len(str))>>
      ELSE <<SubSeq(str, start, Min(dots) - 1)>> \o Split(str, Min(dots) + 1)

\* private parseToken(encodedToken): the first two parts, the second one
\* undefined when the string holds no separator
parseToken(encodedToken) ==
  LET splitToken == Split(encodedToken, 1)
  IN  [token |-> JsString(splitToken[1]),
       signature |-> IF Len(splitToken) >= 2 THEN JsString(splitToken[2])
                     ELSE Undefined]

\* a session id derived from the time of issue
generateSessionId_FromTime == <<115>> \o NumberText(now + 1)

\* private generateSessionId(): crypto.randomUUID() never repeats an id; the
\* ids are "s1", "s2", ... in the order of issue
SessionIdText(k) == <<115>> \o NumberText(k)
generateSessionId == SessionIdText(Len(issued) + 1)

\* a session id createToken never returns
NeverIssuedId == <<115, Digit0>>

(***************************************************************************)
(* JavaScript's reading of a decoded value.                                *)
(***************************************************************************)
\* decoded.name raises a TypeError when decoded is null
PropertyThrows(decoded) == ~decoded.isObject /\ decoded.val.t = "null"

\* v < n for a number n: ToNumber(v) is NaN for undefined and for a string
\* that is no number, 0 for null and for the empty string
LessThan(v, n) ==
  CASE v.t = "number" -> v.n < n
    [] v.t = "null" -> 0 < n
    [] v.t = "string" ->
         /\ \A k \in 1..Len(v.s) : IsDigit(v.s[k])
         /\ DigitsValue(v.s) < n
    [] OTHER -> FALSE

(***************************************************************************)
(* The TokenStore collaborator (interface TokenStore): a set of session    *)
(* ids with a revocation record.                                           *)
(***************************************************************************)
\* what one addToDenyList call can do: record the id and return true, record
\* nothing and return false, or raise
StoreOutcomes == IF storeRaises THEN {"recorded", "refused", "raise"}
                 ELSE {"recorded", "refused"}

\* whether one isOnDenyList call raises instead of answering
StoreRaise == IF storeRaises THEN {FALSE, TRUE} ELSE {FALSE}

\* a store that answers for the deny list as a whole, not for the session id
isOnDenyList_AnySession(sessionId) == denyList # {}

isOnDenyList(sessionId) == sessionId \in denyList

addToDenyList(sessionId, outcome) ==
  IF outcome = "recorded" THEN denyList \cup {sessionId} ELSE denyList

(***************************************************************************)
(* The outcome of a call: what it returned or raised, and the steps it     *)
(* took, in order.                                                         *)
(***************************************************************************)
Step(fn) == [fn |-> fn, sessionId |-> Undefined, timestamp |-> 0]
StoreCall(fn, sessionId, timestamp) ==
  [fn |-> fn, sessionId |-> sessionId, timestamp |-> timestamp]

\* ret: "true", "false", "string" (value holds it) or the error raised;
\* answer: what the TokenStore returned to the call, "raised" when it raised
\* an error, "none" when it was not called
Result(ret, calls) == [ret |-> ret, value |-> <<>>, calls |-> calls, answer |-> "none"]

Answered(result, answer) == [result EXCEPT !.answer = answer]

Bool(b) == IF b THEN "true" ELSE "false"

(***************************************************************************)
(* class Bouncer                                                           *)
(***************************************************************************)
\* createToken(userId, expirationDate); a Date is its millisecond value
createToken(userId, expirationDate) ==
  LET sessionId == generateSessionId
      expirationTime == JsNumber(expirationDate)
      token == Token(JsString(sessionId), userId, expirationTime)
      encodedToken == encodeToken(token)
      signature == signToken(encodedToken)
  IN  [token |-> token, encoded |-> encodedToken \o <<Dot>> \o signature]

\* the empty string not taken for falsy
isFalsy_Never(unparsedToken) == FALSE

\* if (!unparsedToken)
isFalsy(unparsedToken) == unparsedToken = <<>>

\* the comparison reversed
isExpired_Reversed(decodedToken, time) ==
  /\ decodedToken.obj.expirationTime.t = "number"
  /\ decodedToken.obj.expirationTime.n > time

\* the comparison made an equality
isExpired_OnlyAt(decodedToken, time) ==
  /\ decodedToken.obj.expirationTime.t = "number"
  /\ decodedToken.obj.expirationTime.n = time

\* no token taken for expired
isExpired_Never(decodedToken, time) == FALSE

\* the comparison made inclusive
isExpired_Inclusive(decodedToken, time) ==
  LessThan(decodedToken.obj.expirationTime, time + 1)

\* decodedToken.expirationTime < Date.now()
isExpired(decodedToken, time) == LessThan(decodedToken.obj.expirationTime, time)

\* the error of the store caught, and false returned in its place
storeError_Caught == "false"

\* no try and no catch around the call of the store: the error it raises
\* leaves the method as it is
storeError == "StoreError"

\* the store's answer returned as it is
notDenied_Same(denied) == denied

\* return !denied
notDenied(denied) == ~denied

\* validateToken(unparsedToken); raise: the store raises when it is queried
validateToken(unparsedToken, raise) ==
  IF isFalsy(unparsedToken) THEN Result("false", <<>>)
  ELSE
    LET parsed == parseToken(unparsedToken)
        verified == verifyToken(parsed.token, parsed.signature)
        s1 == <<Step("parseToken"), Step("verifyToken")>>
    IN  IF verified.threw THEN Result("TypeError", s1)
        ELSE IF ~verified.verified THEN Result("false", s1)
        ELSE
          LET decodedToken == decodeToken(parsed.token)
              s2 == Append(s1, Step("decodeToken"))
          IN  IF ~decodedToken.ok THEN Result("SyntaxError", s2)
              ELSE IF PropertyThrows(decodedToken) THEN Result("TypeError", s2)
              ELSE
                LET s3 == Append(s2, Step("compareExpiration"))
                    sessionId == decodedToken.obj.sessionId
                    s4 == Append(s3, StoreCall("isOnDenyList", sessionId, 0))
                IN  IF isExpired(decodedToken, now) THEN Result("false", s3)
                    ELSE IF raise THEN Answered(Result(storeError, s4), "raised")
                    ELSE Answered(Result(Bool(notDenied(isOnDenyList(sessionId))), s4),
                                  Bool(isOnDenyList(sessionId)))

\* the store's answer returned in place of true whatever it is
revokeResult_AlwaysTrue(added) == TRUE

\* return this.tokenStore.addToDenyList(..): the store's answer is returned
revokeResult(added) == added

\* revokeToken verifying the signature before it decodes, as validateToken does
revokeToken_Verified(unparsedToken, outcome) ==
  IF isFalsy(unparsedToken) THEN [result |-> Result("false", <<>>), store |-> denyList]
  ELSE
    LET parsed == parseToken(unparsedToken)
        verified == verifyToken(parsed.token, parsed.signature)
        decodedToken == decodeToken(parsed.token)
        s0 == <<Step("parseToken"), Step("verifyToken")>>
        s1 == Append(s0, Step("decodeToken"))
    IN  IF verified.threw THEN [result |-> Result("TypeError", s0), store |-> denyList]
        ELSE IF ~verified.verified THEN [result |-> Result("false", s0), store |-> denyList]
        ELSE IF ~decodedToken.ok THEN [result |-> Result("SyntaxError", s1), store |-> denyList]
        ELSE IF PropertyThrows(decodedToken)
          THEN [result |-> Result("TypeError", s1), store |-> denyList]
        ELSE
          LET sessionId == decodedToken.obj.sessionId
              s2 == Append(s1, StoreCall("addToDenyList", sessionId, now))
          IN  [result |-> IF outcome = "raise"
                          THEN Answered(Result(storeError, s2), "raised")
                          ELSE Answered(Result(Bool(outcome = "recorded"), s2),
                                        Bool(outcome = "recorded")),
               store |-> addToDenyList(sessionId, outcome)]

\* revokeToken(unparsedToken); outcome: what the store does when it is called
revokeToken(unparsedToken, outcome) ==
  IF isFalsy(unparsedToken) THEN [result |-> Result("false", <<>>), store |-> denyList]
  ELSE
    LET parsed == parseToken(unparsedToken)
        decodedToken == decodeToken(parsed.token)
        s1 == <<Step("parseToken"), Step("decodeToken")>>
    IN  IF ~decodedToken.ok THEN [result |-> Result("SyntaxError", s1), store |-> denyList]
        ELSE IF PropertyThrows(decodedToken)
          THEN [result |-> Result("TypeError", s1), store |-> denyList]
        ELSE
          LET sessionId == decodedToken.obj.sessionId
              s2 == Append(s1, StoreCall("addToDenyList", sessionId, now))
          IN  [result |-> IF outcome = "raise"
                          THEN Answered(Result(storeError, s2), "raised")
                          ELSE Answered(Result(Bool(revokeResult(outcome = "recorded")), s2),
                                        Bool(outcome = "recorded")),
               store |-> addToDenyList(sessionId, outcome)]

(***************************************************************************)
(* class Ruleset: two Sets of rule references. A Set holds a reference     *)
(* once and keeps the insertion order; its iterator is live: it goes on to *)
(* the entries added after it was created and passes over the ones         *)
(* deleted.                                                                *)
(***************************************************************************)
RuleRefs == 1..NumRules

\* the user data the host has evaluated
UserData == {1, 2, 3, 4, 6}

\* ValidationRule, AsyncValidationRule: the rule of reference r accepts the
\* user data that are no multiple of r + 1; an async rule resolves to what
\* the sync rule of the same reference returns
ApplyRule(rule, userData) == userData % (rule + 1) # 0

Members(set) == {set[i] : i \in 1..Len(set)}

\* an array in the place of the Set: push adds a reference that is there
SetAdd_Push(set, rule) == Append(set, rule)

\* Set.prototype.add, delete, and new Set(array)
SetAdd(set, rule) == IF rule \in Members(set) THEN set ELSE Append(set, rule)
SetDelete(set, rule) == SelectSeq(set, LAMBDA r : r # rule)
\* delete returns true if the element was in the Set
SetDeleteReturns(set, rule) == rule \in Members(set)

RECURSIVE NewSet(_)
NewSet(array) ==
  IF array = <<>> THEN <<>>
  ELSE SetAdd(NewSet(SubSeq(array, 1, Len(array) - 1)), array[Len(array)])

\* the index of a member
IndexOf(set, rule) == CHOOSE i \in 1..Len(set) : set[i] = rule

addSyncRule(rule) == SetAdd(syncRules, rule)
addAsyncRule(rule) == SetAdd(asyncRules, rule)
hasSyncRule(rule) == rule \in Members(syncRules)
\* hasAsyncRule looking in the sync rules
hasAsyncRule_InSyncRules(rule) == rule \in Members(syncRules)

hasAsyncRule(rule) == rule \in Members(asyncRules)
\* deleteSyncRule returning true whether or not the rule was there
deleteSyncRule_AlwaysTrue(rule) ==
  [result |-> TRUE, rules |-> SetDelete(syncRules, rule)]

deleteSyncRule(rule) ==
  [result |-> SetDeleteReturns(syncRules, rule), rules |-> SetDelete(syncRules, rule)]
deleteAsyncRule(rule) ==
  [result |-> SetDeleteReturns(asyncRules, rule), rules |-> SetDelete(asyncRules, rule)]
clearSyncRules == <<>>
clearAsyncRules == <<>>

\* one invocation of a rule: result is "true", "false", or "pending" while
\* the promise of an async rule has not resolved
Invoked(kind, rule, result) == [kind |-> kind, rule |-> rule, result |-> result]

\* An evaluation: the method called and its user data; status "idle",
\* "awaiting" (suspended at the await of evaluateAsync) or "resolved"; pos, the
\* number of entries of asyncRules its iterator has passed; the rules it has
\* invoked, in order; and the number of changes of the Ruleset since the call.
NoEval == [op |-> "none", userData |-> 0, status |-> "idle", pos |-> 0,
           result |-> "none", log |-> <<>>, changes |-> 0]

Started(op, userData) == [NoEval EXCEPT !.op = op, !.userData = userData]

Resolved(e, result) == [e EXCEPT !.status = "resolved", !.result = Bool(result)]

\* evaluateSync going through every rule, whatever the rules return
evaluateSync_NoReturn(userData) ==
  [result |-> \A i \in 1..Len(syncRules) : ApplyRule(syncRules[i], userData),
   log |-> [i \in 1..Len(syncRules) |->
              Invoked("sync", syncRules[i], Bool(ApplyRule(syncRules[i], userData)))]]

\* evaluateSync(userData): the loop returns false at the first rule that
\* returns false, true after the last rule
evaluateSync(userData) ==
  LET failing == {i \in 1..Len(syncRules) : ~ApplyRule(syncRules[i], userData)}
      last == IF failing = {} THEN Len(syncRules) ELSE Min(failing)
  IN  [result |-> failing = {},
       log |-> [i \in 1..last |->
                  Invoked("sync", syncRules[i], Bool(ApplyRule(syncRules[i], userData)))]]

\* evaluateAsync invoking every remaining rule at once and awaiting them all
evaluateAsync_Parallel(e) ==
  IF e.pos < Len(asyncRules)
  THEN [e EXCEPT !.status = "awaiting",
                 !.pos = Len(asyncRules),
                 !.log = @ \o [i \in 1..(Len(asyncRules) - e.pos) |->
                                 Invoked("async", asyncRules[e.pos + i], "pending")]]
  ELSE Resolved(e, TRUE)

\* evaluateAsync going through the rules that were there when it was called,
\* as a loop over a copy of the Set would
evaluateAsync_Snapshot(e) ==
  IF e.pos < Len(asyncRules) - e.changes
  THEN [e EXCEPT !.status = "awaiting",
                 !.pos = @ + 1,
                 !.log = Append(@, Invoked("async", asyncRules[e.pos + 1], "pending"))]
  ELSE Resolved(e, TRUE)

\* evaluateAsync from the position of its iterator up to its next await: the
\* next rule is invoked and awaited, or the loop is over and true returned
evaluateAsync(e) ==
  IF e.pos < Len(asyncRules)
  THEN [e EXCEPT !.status = "awaiting",
                 !.pos = @ + 1,
                 !.log = Append(@, Invoked("async", asyncRules[e.pos + 1], "pending"))]
  ELSE Resolved(e, TRUE)

\* the loop going on after a rule that resolved to false
returnsFalse_Never(result) == FALSE

\* if (!result) return false
returnsFalse(result) == ~result

\* evaluateAsync resumed: the awaited rule has resolved
resumeAsync(e) ==
  LET n == Len(e.log)
      result == ApplyRule(e.log[n].rule, e.userData)
      logged == [e EXCEPT !.log[n].result = Bool(result)]
  IN  IF returnsFalse(result) THEN Resolved(logged, FALSE)
      ELSE evaluateAsync(logged)

\* validateUser calling evaluateAsync whatever evaluateSync returned
validateUser_BothHalves(userData) ==
  LET sync == evaluateSync(userData)
      started == [Started("validateUser", userData) EXCEPT !.log = sync.log]
  IN  evaluateAsync(started)

\* validateUser returning what evaluateSync returned
validateUser_SyncOnly(userData) ==
  LET sync == evaluateSync(userData)
      started == [Started("validateUser", userData) EXCEPT !.log = sync.log]
  IN  Resolved(started, sync.result)

\* Bouncer.validateUser(userData, rules):
\* rules.evaluateSync(userData) && (await rules.evaluateAsync(userData))
validateUser(userData) ==
  LET sync == evaluateSync(userData)
      started == [Started("validateUser", userData) EXCEPT !.log = sync.log]
  IN  IF ~sync.result THEN Resolved(started, FALSE)
      ELSE evaluateAsync(started)

(***************************************************************************)
(* What the host passes in.                                                *)
(***************************************************************************)
\* a number and a string
UserIds == {JsNumber(1), JsString(<<117>>)}

\* the expiration dates the host asks for
ExpirationDates == {1, MaxTime}

\* a key pair that is not the Bouncer's
OtherKey == privateKey + 1

PayloadOf(encoded) == Split(encoded, 1)[1]
SignatureOf(encoded) == Split(encoded, 1)[2]

\* the characters put in the place of a signature character c: a letter, and
\* the base64 character whose value differs from c's in the lowest bit
Replacements(c) ==
  ({65} \cup
     (IF IsBase64Char(c)
      THEN {B64Alphabet[(Unbase64[c] + 1 - 2 * (Unbase64[c] % 2)) + 1]}
      ELSE {})) \ {c}

\* encoded with one character of its signature segment replaced; its last
\* character is also replaced by the separator and by "!" (33), a character
\* outside the base64 alphabet
Tampered(encoded) ==
  UNION {{[encoded EXCEPT ![i] = c] : c \in Replacements(encoded[i])} :
           i \in (Len(PayloadOf(encoded)) + 2)..Len(encoded)}
  \cup {[encoded EXCEPT ![Len(encoded)] = c] : c \in {Dot, 33}}

IssuedStrings == {issued[k].encoded : k \in 1..Len(issued)}

\* the token issued last, whose variants the host tries
LastIssued == IF issued = <<>> THEN {} ELSE {issued[Len(issued)]}

\* payloads nobody signed: the last token's record with a later expiration,
\* and a record for a session id that was never issued
ForgedExtended ==
  {encodeToken([t.token EXCEPT !.expirationTime = JsNumber(MaxTime + 1)]) :
     t \in LastIssued}
ForgedNeverIssued ==
  encodeToken(Token(JsString(NeverIssuedId), JsNumber(1), JsNumber(MaxTime + 1)))

\* the strings the host passes to validateToken
ValidateInputs ==
  {<<>>, UnparsedToken, <<Dot>>}
  \cup IssuedStrings
  \cup UNION {Tampered(t.encoded) : t \in LastIssued}
  \cup {PayloadOf(t.encoded) : t \in LastIssued}
  \cup {PayloadOf(t.encoded) \o <<Dot>> : t \in LastIssued}
  \cup {<<Dot>> \o SignatureOf(t.encoded) : t \in LastIssued}
  \cup {t.encoded \o <<Dot, 120>> : t \in LastIssued}
  \cup {PayloadOf(e) \o <<Dot>> \o SignatureOf(t.encoded) :
          e \in IssuedStrings, t \in LastIssued}
  \cup {p \o <<Dot>> \o SignatureOf(t.encoded) : p \in ForgedExtended, t \in LastIssued}
  \cup {ForgedNeverIssued \o <<Dot>>
          \o Base64Encode(SignBytes(OtherKey, ForgedNeverIssued))}

\* the strings the host passes to revokeToken
RevokeInputs ==
  {<<>>, SessionIdText(1), ForgedNeverIssued, ForgedNeverIssued \o <<Dot, 120>>}
  \cup IssuedStrings
  \cup {PayloadOf(t.encoded) : t \in LastIssued}

\* JSON.stringify of a record: a property whose value is undefined is left out
Property(key, v) == <<Quote>> \o key \o <<Quote, Colon>> \o ValueText(v)

RECURSIVE Join(_)
Join(texts) ==
  IF texts = <<>> THEN <<>>
  ELSE IF Len(texts) = 1 THEN texts[1]
  ELSE texts[1] \o <<Comma>> \o Join(Tail(texts))

StringifyRecord(obj) ==
  LET props == <<[key |-> KeySessionId, val |-> obj.sessionId],
                 [key |-> KeyUserId, val |-> obj.userId],
                 [key |-> KeyExpirationTime, val |-> obj.expirationTime]>>
      defined == SelectSeq(props, LAMBDA p : p.val # Undefined)
  IN  <<LBrace>>
        \o Join([i \in 1..Len(defined) |-> Property(defined[i].key, defined[i].val)])
        \o <<RBrace>>

\* the records a codec at fault or a holder of the private key may encode: a
\* Token, the Token less one of its fields, and the empty record
CodecRecords ==
  LET token == Token(JsString(SessionIdText(1)), JsNumber(1), JsNumber(MaxTime))
  IN  {token,
       [token EXCEPT !.sessionId = Undefined],
       [token EXCEPT !.userId = Undefined],
       [token EXCEPT !.expirationTime = Undefined],
       EmptyObject}

\* their JSON texts; null and a number, which are JSON and no record; and an
\* opening brace and the empty text, which are no JSON
CodecTexts ==
  {StringifyRecord(r) : r \in CodecRecords}
  \cup {NullText, <<Digit0 + 1>>, <<LBrace>>, <<>>}

CodecPayloads == {Base64Encode(text) : text \in CodecTexts}

\* the payloads signed with the Bouncer's private key, and with another key
CodecValidateInputs ==
  {p \o <<Dot>> \o signToken(p) : p \in CodecPayloads}
  \cup {p \o <<Dot>> \o Base64Encode(SignBytes(OtherKey, p)) : p \in CodecPayloads}

CodecRevokeInputs ==
  (CodecPayloads \ {<<>>})
  \cup {p \o <<Dot>> \o signToken(p) : p \in CodecPayloads}

(***************************************************************************)
(* Actions.                                                                *)
(***************************************************************************)
\* What the string passed in is, read off the string itself: its parts, what
\* its payload segment decodes to, and whether its signature segment is a
\* signature of the payload segment under the Bouncer's key pair.
Facts(input) ==
  LET parts == Split(input, 1)
      decoded == JsonParse(Base64Decode(parts[1]))
  IN  [parts |-> Len(parts),
       wellFormed |-> Len(parts) = 2 /\ parts[1] # <<>> /\ parts[2] # <<>>,
       verifies |-> /\ Len(parts) >= 2
                    /\ Base64Decode(parts[2]) = SignBytes(publicKey, parts[1]),
       bearsToken |-> /\ decoded.ok
                      /\ decoded.isObject
                      /\ decoded.obj.sessionId.t = "string"
                      /\ decoded.obj.expirationTime.t = "number",
       isJson |-> decoded.ok,
       hasFields |-> /\ decoded.ok
                     /\ decoded.isObject
                     /\ decoded.obj.sessionId # Undefined
                     /\ decoded.obj.userId # Undefined
                     /\ decoded.obj.expirationTime # Undefined,
       sessionId |-> decoded.obj.sessionId,
       expirationTime |-> decoded.obj.expirationTime.n]

NoFacts == [parts |-> 0, wellFormed |-> FALSE, verifies |-> FALSE,
            bearsToken |-> FALSE, isJson |-> FALSE, hasFields |-> FALSE,
            sessionId |-> Undefined, expirationTime |-> 0]

\* the arguments of a createToken call and the session id generated in it
NoArgs == [userId |-> Undefined, expirationDate |-> 0, sessionId |-> <<>>]

NoCall == [op |-> "none", input |-> <<>>, facts |-> NoFacts, ret |-> "none",
           value |-> <<>>, calls |-> <<>>, answer |-> "none", args |-> NoArgs]

Called(op, input, result) ==
  [op |-> op, input |-> input, facts |-> Facts(input), ret |-> result.ret,
   value |-> result.value, calls |-> result.calls, answer |-> result.answer,
   args |-> NoArgs]

\* the evaluations the host keeps in progress at a time
EvalIds == {1}

\* two evaluations in progress at a time
OverlappingIds == {1, 2}

\* the evaluations of the behaviour: the ids evals was set up with
Evaluations == DOMAIN evals

\* new Bouncer(tokenStore, privatePem, publicPem) with a matching key pair
\* and an empty store; new Ruleset()
Init ==
  /\ now = 0
  /\ privateKey = 7
  /\ publicKey = 7
  /\ denyList = {}
  /\ storeRaises = FALSE
  /\ issued = <<>>
  /\ revoked = {}
  /\ call = NoCall
  /\ syncRules = <<>>
  /\ asyncRules = <<>>
  /\ evals = [e \in EvalIds |-> NoEval]
  /\ reference = [sync |-> {}, async |-> {}]

\* createToken putting the new session id on the deny list
CreateToken_Revoking ==
  /\ call = NoCall
  /\ Len(issued) < MaxTokens
  /\ \E userId \in UserIds, expirationDate \in ExpirationDates :
       LET t == createToken(userId, expirationDate)
       IN  /\ issued' = Append(issued, t)
           /\ denyList' = denyList \cup {t.token.sessionId}
           /\ call' = [op |-> "createToken", input |-> <<>>, facts |-> NoFacts,
                       ret |-> "string", value |-> t.encoded,
                       calls |-> <<StoreCall("addToDenyList", t.token.sessionId, now)>>,
                       answer |-> "true",
                       args |-> [userId |-> userId, expirationDate |-> expirationDate,
                                 sessionId |-> generateSessionId]]
  /\ UNCHANGED <<now, privateKey, publicKey, storeRaises, revoked>>
  /\ UNCHANGED rulesetVars

\* the host calls createToken
CreateToken ==
  /\ call = NoCall
  /\ Len(issued) < MaxTokens
  /\ \E userId \in UserIds, expirationDate \in ExpirationDates :
       LET t == createToken(userId, expirationDate)
       IN  /\ issued' = Append(issued, t)
           /\ call' = [op |-> "createToken", input |-> <<>>, facts |-> NoFacts,
                       ret |-> "string", value |-> t.encoded, calls |-> <<>>,
                       answer |-> "none",
                       args |-> [userId |-> userId, expirationDate |-> expirationDate,
                                 sessionId |-> generateSessionId]]
  /\ UNCHANGED <<now, privateKey, publicKey, denyList, storeRaises, revoked>>
  /\ UNCHANGED rulesetVars

\* the host calls revokeToken with one of the strings of inputs
RevokeTokenOf(inputs) ==
  /\ call = NoCall
  /\ \E unparsedToken \in inputs, outcome \in StoreOutcomes :
       LET r == revokeToken(unparsedToken, outcome)
       IN  /\ denyList' = r.store
           /\ revoked' = IF r.result.ret = "true"
                         THEN revoked \cup {Facts(unparsedToken).sessionId}
                         ELSE revoked
           /\ call' = Called("revokeToken", unparsedToken, r.result)
  /\ UNCHANGED <<now, privateKey, publicKey, storeRaises, issued>>
  /\ UNCHANGED rulesetVars

RevokeToken == RevokeTokenOf(RevokeInputs)

\* validateToken putting the session id of a token it rejects on the deny list
ValidateTokenOf_Revoking(inputs) ==
  /\ call = NoCall
  /\ \E unparsedToken \in inputs, raise \in StoreRaise :
       LET r == validateToken(unparsedToken, raise)
       IN  /\ call' = Called("validateToken", unparsedToken, r)
           /\ denyList' = IF r.ret = "false" /\ Facts(unparsedToken).bearsToken
                           THEN denyList \cup {Facts(unparsedToken).sessionId}
                           ELSE denyList
  /\ UNCHANGED <<now, privateKey, publicKey, storeRaises, issued, revoked>>
  /\ UNCHANGED rulesetVars

\* the host calls validateToken with one of the strings of inputs
ValidateTokenOf(inputs) ==
  /\ call = NoCall
  /\ \E unparsedToken \in inputs, raise \in StoreRaise :
       call' = Called("validateToken", unparsedToken, validateToken(unparsedToken, raise))
  /\ UNCHANGED <<now, privateKey, publicKey, denyList, storeRaises, issued, revoked>>
  /\ UNCHANGED rulesetVars

ValidateToken == ValidateTokenOf(ValidateInputs)

\* the host has read the outcome of its call
HostContinue ==
  /\ call # NoCall
  /\ call' = NoCall
  /\ UNCHANGED <<now, privateKey, publicKey, denyList, storeRaises, issued, revoked>>
  /\ UNCHANGED rulesetVars

\* time passes between calls
Tick ==
  /\ call = NoCall
  /\ now < MaxTime
  /\ now' = now + 1
  /\ UNCHANGED <<privateKey, publicKey, denyList, storeRaises, issued, revoked, call>>
  /\ UNCHANGED rulesetVars

Next == CreateToken \/ RevokeToken \/ ValidateToken \/ HostContinue \/ Tick

Spec == Init /\ [][Next]_vars

(***************************************************************************)
(* Payloads that are no Token: the host validates and revokes strings      *)
(* whose payload segment is not JSON or lacks a field of the Token.        *)
(***************************************************************************)
CodecNext ==
  \/ ValidateTokenOf(CodecValidateInputs)
  \/ RevokeTokenOf(CodecRevokeInputs)
  \/ HostContinue
  \/ Tick

CodecSpec == Init /\ [][CodecNext]_vars

(***************************************************************************)
(* A TokenStore that fails: each of its calls may raise an error in the    *)
(* place of an answer.                                                     *)
(***************************************************************************)
FaultInit ==
  /\ now = 0
  /\ privateKey = 7
  /\ publicKey = 7
  /\ denyList = {}
  /\ storeRaises = TRUE
  /\ issued = <<>>
  /\ revoked = {}
  /\ call = NoCall
  /\ syncRules = <<>>
  /\ asyncRules = <<>>
  /\ evals = [e \in EvalIds |-> NoEval]
  /\ reference = [sync |-> {}, async |-> {}]

FaultNext ==
  \/ CreateToken
  \/ RevokeTokenOf(IssuedStrings)
  \/ ValidateTokenOf(IssuedStrings)
  \/ HostContinue
  \/ Tick

FaultSpec == FaultInit /\ [][FaultNext]_vars

(***************************************************************************)
(* The sessions of a host that passes the tokens it issued, and no other   *)
(* string, to revokeToken and validateToken, over a store that does not    *)
(* raise.                                                                  *)
(***************************************************************************)
SessionNext ==
  \/ CreateToken
  \/ RevokeTokenOf(IssuedStrings)
  \/ ValidateTokenOf(IssuedStrings)
  \/ HostContinue
  \/ Tick

SessionSpec == Init /\ [][SessionNext]_vars

(***************************************************************************)
(* The Ruleset and validateUser: the host builds a Ruleset, changes it and *)
(* evaluates user data against it; an evaluation in progress is suspended  *)
(* while the host does something else.                                     *)
(***************************************************************************)
\* the arrays the host passes to new Ruleset(syncRules, asyncRules)
SeedArrays == {<<>>, <<1, 2, 1>>}

RulesetInit ==
  /\ now = 0
  /\ privateKey = 7
  /\ publicKey = 7
  /\ denyList = {}
  /\ storeRaises = FALSE
  /\ issued = <<>>
  /\ revoked = {}
  /\ call = NoCall
  /\ \E syncArray \in SeedArrays, asyncArray \in SeedArrays :
       /\ syncRules = NewSet(syncArray)
       /\ asyncRules = NewSet(asyncArray)
       /\ reference = [sync |-> {syncArray[i] : i \in 1..Len(syncArray)},
                       async |-> {asyncArray[i] : i \in 1..Len(asyncArray)}]
  /\ evals = [e \in EvalIds |-> NoEval]

\* the host changes the Ruleset between calls or while an evaluation is
\* suspended, once it has read the results that are there to read
CanChangeWithin(max) ==
  \A e \in Evaluations :
    \/ evals[e].status = "idle"
    \/ evals[e].status = "awaiting" /\ evals[e].changes < max

CanChange == CanChangeWithin(MaxChanges)

\* the evaluations after a change of the Ruleset: position[e] is where the
\* iterator of evaluation e stands in the new asyncRules
Changed(position) ==
  [e \in Evaluations |->
     IF evals[e].status = "idle" THEN evals[e]
     ELSE [evals[e] EXCEPT !.changes = @ + 1, !.pos = position[e]]]

SamePosition == [e \in Evaluations |-> evals[e].pos]

AddSyncRuleWithin(max) ==
  /\ CanChangeWithin(max)
  /\ \E rule \in RuleRefs :
       /\ syncRules' = addSyncRule(rule)
       /\ reference' = [reference EXCEPT !.sync = @ \cup {rule}]
       /\ evals' = IF syncRules' = syncRules THEN evals ELSE Changed(SamePosition)
  /\ UNCHANGED asyncRules
  /\ UNCHANGED bouncerVars

AddSyncRule == AddSyncRuleWithin(MaxChanges)

AddAsyncRuleWithin(max) ==
  /\ CanChangeWithin(max)
  /\ \E rule \in RuleRefs :
       /\ asyncRules' = addAsyncRule(rule)
       /\ reference' = [reference EXCEPT !.async = @ \cup {rule}]
       /\ evals' = IF asyncRules' = asyncRules THEN evals ELSE Changed(SamePosition)
  /\ UNCHANGED syncRules
  /\ UNCHANGED bouncerVars

AddAsyncRule == AddAsyncRuleWithin(MaxChanges)

DeleteSyncRuleWithin(max) ==
  /\ CanChangeWithin(max)
  /\ \E rule \in RuleRefs :
       /\ syncRules' = deleteSyncRule(rule).rules
       /\ reference' = [reference EXCEPT !.sync = @ \ {rule}]
       /\ evals' = IF syncRules' = syncRules THEN evals ELSE Changed(SamePosition)
  /\ UNCHANGED asyncRules
  /\ UNCHANGED bouncerVars

DeleteSyncRule == DeleteSyncRuleWithin(MaxChanges)

\* a loop that counts the rules it has invoked and takes the rule at that
\* index next, as a loop over an array would: the count stays as it is when
\* an entry is deleted
DeleteAsyncRuleWithin_Index(max) ==
  /\ CanChangeWithin(max)
  /\ \E rule \in RuleRefs :
       /\ asyncRules' = deleteAsyncRule(rule).rules
       /\ reference' = [reference EXCEPT !.async = @ \ {rule}]
       /\ evals' = IF asyncRules' = asyncRules THEN evals
                   ELSE Changed([e \in Evaluations |-> Min({evals[e].pos, Len(asyncRules')})])
  /\ UNCHANGED syncRules
  /\ UNCHANGED bouncerVars

\* an iterator that has passed the deleted entry has one entry less behind it
DeleteAsyncRuleWithin(max) ==
  /\ CanChangeWithin(max)
  /\ \E rule \in RuleRefs :
       /\ asyncRules' = deleteAsyncRule(rule).rules
       /\ reference' = [reference EXCEPT !.async = @ \ {rule}]
       /\ evals' = IF asyncRules' = asyncRules THEN evals
                   ELSE Changed([e \in Evaluations |->
                                   IF IndexOf(asyncRules, rule) <= evals[e].pos
                                   THEN evals[e].pos - 1 ELSE evals[e].pos])
  /\ UNCHANGED syncRules
  /\ UNCHANGED bouncerVars

DeleteAsyncRule == DeleteAsyncRuleWithin(MaxChanges)

ClearSyncRulesWithin(max) ==
  /\ CanChangeWithin(max)
  /\ syncRules' = clearSyncRules
  /\ reference' = [reference EXCEPT !.sync = {}]
  /\ evals' = IF syncRules' = syncRules THEN evals ELSE Changed(SamePosition)
  /\ UNCHANGED asyncRules
  /\ UNCHANGED bouncerVars

ClearSyncRules == ClearSyncRulesWithin(MaxChanges)

\* every entry is behind an iterator of the cleared Set
ClearAsyncRulesWithin(max) ==
  /\ CanChangeWithin(max)
  /\ asyncRules' = clearAsyncRules
  /\ reference' = [reference EXCEPT !.async = {}]
  /\ evals' = IF asyncRules' = asyncRules THEN evals ELSE Changed([e \in Evaluations |-> 0])
  /\ UNCHANGED syncRules
  /\ UNCHANGED bouncerVars

ClearAsyncRules == ClearAsyncRulesWithin(MaxChanges)

\* the host calls rules.evaluateSync(userData)
EvaluateSync ==
  /\ \E e \in Evaluations, userData \in UserData :
       /\ evals[e].status = "idle"
       /\ LET sync == evaluateSync(userData)
          IN  evals' = [evals EXCEPT ![e] =
                          Resolved([Started("evaluateSync", userData)
                                      EXCEPT !.log = sync.log], sync.result)]
  /\ UNCHANGED <<syncRules, asyncRules, reference>>
  /\ UNCHANGED bouncerVars

\* the host calls rules.evaluateAsync(userData)
EvaluateAsync ==
  /\ \E e \in Evaluations, userData \in UserData :
       /\ evals[e].status = "idle"
       /\ evals' = [evals EXCEPT ![e] = evaluateAsync(Started("evaluateAsync", userData))]
  /\ UNCHANGED <<syncRules, asyncRules, reference>>
  /\ UNCHANGED bouncerVars

\* the host calls bouncer.validateUser(userData, rules)
ValidateUser ==
  /\ \E e \in Evaluations, userData \in UserData :
       /\ evals[e].status = "idle"
       /\ evals' = [evals EXCEPT ![e] = validateUser(userData)]
  /\ UNCHANGED <<syncRules, asyncRules, reference>>
  /\ UNCHANGED bouncerVars

\* one iterator kept by the Ruleset and shared by the calls in progress: the
\* call that is resumed moves it for the others as well
RuleResolves_SharedIterator ==
  /\ \E e \in Evaluations :
       /\ evals[e].status = "awaiting"
       /\ LET resumed == resumeAsync(evals[e])
          IN  evals' = [x \in Evaluations |->
                          IF x = e THEN resumed
                          ELSE IF evals[x].status = "awaiting"
                            THEN [evals[x] EXCEPT !.pos = resumed.pos]
                          ELSE evals[x]]
  /\ UNCHANGED <<syncRules, asyncRules, reference>>
  /\ UNCHANGED bouncerVars

\* the promise of the rule an evaluation awaits resolves
RuleResolves ==
  /\ \E e \in Evaluations :
       /\ evals[e].status = "awaiting"
       /\ evals' = [evals EXCEPT ![e] = resumeAsync(evals[e])]
  /\ UNCHANGED <<syncRules, asyncRules, reference>>
  /\ UNCHANGED bouncerVars

\* the host giving up an evaluation that is suspended
HostReads_Cancels ==
  /\ \E e \in Evaluations :
       /\ evals[e].status \in {"resolved", "awaiting"}
       /\ evals' = [evals EXCEPT ![e] = NoEval]
  /\ UNCHANGED <<syncRules, asyncRules, reference>>
  /\ UNCHANGED bouncerVars

\* the host has read the result of an evaluation
HostReads ==
  /\ \E e \in Evaluations :
       /\ evals[e].status = "resolved"
       /\ evals' = [evals EXCEPT ![e] = NoEval]
  /\ UNCHANGED <<syncRules, asyncRules, reference>>
  /\ UNCHANGED bouncerVars

RulesetNext ==
  \/ AddSyncRule \/ AddAsyncRule
  \/ DeleteSyncRule \/ DeleteAsyncRule
  \/ ClearSyncRules \/ ClearAsyncRules
  \/ EvaluateSync \/ EvaluateAsync \/ ValidateUser
  \/ RuleResolves \/ HostReads

RulesetSpec == RulesetInit /\ [][RulesetNext]_vars

(***************************************************************************)
(* The Ruleset changed again and again under one evaluateAsync call: the   *)
(* host changes the sync rules between calls, and deletes, clears and adds *)
(* async rules while the call is suspended at a rule.                      *)
(***************************************************************************)
ReaddNext ==
  \/ AddSyncRuleWithin(0) \/ DeleteSyncRuleWithin(0) \/ ClearSyncRulesWithin(0)
  \/ AddAsyncRuleWithin(MaxReadds)
  \/ DeleteAsyncRuleWithin(MaxReadds)
  \/ ClearAsyncRulesWithin(MaxReadds)
  \/ EvaluateAsync
  \/ RuleResolves \/ HostReads

ReaddSpec == RulesetInit /\ [][ReaddNext]_vars

(***************************************************************************)
(* Async rules that all resolve: the promise of a rule that is awaited is  *)
(* resolved in the end, whatever the host does to the async rules          *)
(* meanwhile; sync rules are deleted between calls.                        *)
(***************************************************************************)
LiveNext ==
  \/ DeleteSyncRuleWithin(0)
  \/ AddAsyncRuleWithin(MaxChanges)
  \/ DeleteAsyncRuleWithin(MaxChanges)
  \/ ClearAsyncRulesWithin(MaxChanges)
  \/ EvaluateAsync \/ ValidateUser
  \/ RuleResolves \/ HostReads

LiveSpec == RulesetInit /\ [][LiveNext]_vars /\ WF_vars(RuleResolves)

(***************************************************************************)
(* Async rules added under an evaluation: the host deletes and clears      *)
(* async rules between calls only, and adds async rules between calls and  *)
(* while a call is suspended at a rule.                                    *)
(***************************************************************************)
AddingNext ==
  \/ AddAsyncRuleWithin(MaxReadds)
  \/ DeleteAsyncRuleWithin(0)
  \/ ClearAsyncRulesWithin(0)
  \/ EvaluateAsync \/ ValidateUser
  \/ RuleResolves \/ HostReads

AddingSpec == RulesetInit /\ [][AddingNext]_vars

(***************************************************************************)
(* Async rules removed under an evaluation: the host adds async rules      *)
(* between calls only, and deletes and clears async rules between calls    *)
(* and while a call is suspended at a rule.                                *)
(***************************************************************************)
RemovingNext ==
  \/ AddAsyncRuleWithin(0)
  \/ DeleteAsyncRuleWithin(MaxReadds)
  \/ ClearAsyncRulesWithin(MaxReadds)
  \/ EvaluateAsync \/ ValidateUser
  \/ RuleResolves \/ HostReads

RemovingSpec == RulesetInit /\ [][RemovingNext]_vars

(***************************************************************************)
(* Overlapping evaluations: the host keeps two validateUser or             *)
(* evaluateAsync calls in progress at a time, the promises of their rules  *)
(* resolve in any order, and the host adds and deletes rules only when no  *)
(* call is in progress.                                                    *)
(***************************************************************************)
OverlapInit ==
  /\ now = 0
  /\ privateKey = 7
  /\ publicKey = 7
  /\ denyList = {}
  /\ storeRaises = FALSE
  /\ issued = <<>>
  /\ revoked = {}
  /\ call = NoCall
  /\ \E syncArray \in SeedArrays, asyncArray \in SeedArrays :
       /\ syncRules = NewSet(syncArray)
       /\ asyncRules = NewSet(asyncArray)
       /\ reference = [sync |-> {syncArray[i] : i \in 1..Len(syncArray)},
                       async |-> {asyncArray[i] : i \in 1..Len(asyncArray)}]
  /\ evals = [e \in OverlappingIds |-> NoEval]

OverlapNext ==
  \/ AddAsyncRuleWithin(0)
  \/ DeleteAsyncRuleWithin(0)
  \/ EvaluateAsync \/ ValidateUser
  \/ RuleResolves \/ HostReads

OverlapSpec == OverlapInit /\ [][OverlapNext]_vars

(***************************************************************************)
(* The two collections by themselves: the host adds, deletes and clears    *)
(* rules, and evaluates nothing.                                           *)
(***************************************************************************)
MembershipNext ==
  \/ AddSyncRule \/ AddAsyncRule
  \/ DeleteSyncRule \/ DeleteAsyncRule
  \/ ClearSyncRules \/ ClearAsyncRules

MembershipSpec == RulesetInit /\ [][MembershipNext]_vars

(***************************************************************************)
(* Reading the last call.                                                  *)
(***************************************************************************)
Validated == call.op = "validateToken"
Revoked == call.op = "revokeToken"

\* the string has a signature segment
HasSignature == call.facts.parts >= 2

\* the payload segment decodes to a Token record
BearsToken == call.facts.bearsToken
InputSessionId == call.facts.sessionId
InputExpiration == call.facts.expirationTime

\* the signature segment is a signature of the payload segment
SignatureVerifies == call.facts.verifies

WellFormed == call.facts.wellFormed

StepNames == {call.calls[i].fn : i \in 1..Len(call.calls)}

\* the payloads that verify are the ones createToken signed: the checksum
\* standing for SHA-256 has no collision among the strings of the model
DigestSound ==
  (Validated /\ SignatureVerifies) =>
    \E k \in 1..Len(issued) :
      PayloadOf(call.input) = PayloadOf(issued[k].encoded)

(***************************************************************************)
(* C1. Round trip: validateToken of a string createToken returned, whose   *)
(* expiration is later than the current time and whose session id the      *)
(* store does not hold, returns true.                                      *)
(***************************************************************************)
C1_RoundTrip ==
  \A k \in 1..Len(issued) :
    ( /\ Validated
      /\ call.input = issued[k].encoded
      /\ issued[k].token.expirationTime.n > now
      /\ issued[k].token.sessionId \notin denyList )
    => call.ret = "true"

C1_Witness ==
  /\ Validated
  /\ call.ret = "true"
  /\ \E k \in 1..Len(issued) :
       /\ call.input = issued[k].encoded
       /\ issued[k].token.userId.t = "string"
       /\ issued[k].token.expirationTime.n > now

(***************************************************************************)
(* C2. Revocation: once revokeToken has returned true for a session id,    *)
(* validateToken returns false for every token (a payload with a signature *)
(* segment) that bears this session id.                                    *)
(***************************************************************************)
C2_RevokedRejected ==
  (Validated /\ HasSignature /\ BearsToken /\ InputSessionId \in revoked)
    => call.ret = "false"

C2_Witness ==
  /\ Validated /\ BearsToken /\ SignatureVerifies
  /\ InputSessionId \in revoked
  /\ InputExpiration > now
  /\ call.ret = "false"

(***************************************************************************)
(* C3. Expiration: validateToken returns false for every token whose       *)
(* expirationTime is earlier than the current time, whether its signature  *)
(* verifies or not and whether its session id is on the deny list or not.  *)
(***************************************************************************)
C3_ExpiredRejected ==
  (Validated /\ HasSignature /\ BearsToken /\ InputExpiration < now)
    => call.ret = "false"

C3_Witness ==
  /\ Validated /\ BearsToken /\ SignatureVerifies
  /\ InputExpiration < now
  /\ InputSessionId \notin denyList
  /\ call.ret = "false"

(***************************************************************************)
(* C4. validateToken never throws: every call yields true or false.        *)
(***************************************************************************)
C4_NeverThrows == Validated => call.ret \in {"true", "false"}

(***************************************************************************)
(* C5. Fail fast: in a validateToken call the signature is verified before *)
(* the payload is decoded, the expiration compared or the store queried,   *)
(* and a string whose signature does not verify is answered false with     *)
(* none of these steps taken.                                              *)
(***************************************************************************)
C5_VerifyFirst ==
  Validated =>
    /\ \A i \in 1..Len(call.calls) :
         call.calls[i].fn \in {"decodeToken", "compareExpiration", "isOnDenyList"}
           => \E j \in 1..(i - 1) : call.calls[j].fn = "verifyToken"
    /\ (HasSignature /\ ~SignatureVerifies) =>
         /\ call.ret = "false"
         /\ StepNames \cap {"decodeToken", "compareExpiration", "isOnDenyList"} = {}

C5_Witness ==
  /\ Validated /\ HasSignature /\ ~SignatureVerifies
  /\ BearsToken /\ InputExpiration > now
  /\ call.ret = "false"
  /\ "verifyToken" \in StepNames

(***************************************************************************)
(* C6. For a token whose signature verifies and whose expirationTime is    *)
(* not earlier than the current time, validateToken queries the store for  *)
(* the token's session id and returns the negation of the answer.          *)
(***************************************************************************)
C6_NegatesDenyList ==
  (Validated /\ SignatureVerifies /\ BearsToken /\ InputExpiration >= now) =>
    /\ call.ret = (IF InputSessionId \in denyList THEN "false" ELSE "true")
    /\ call.calls # <<>>
    /\ call.calls[Len(call.calls)] = StoreCall("isOnDenyList", InputSessionId, 0)

C6_Witness ==
  /\ Validated /\ SignatureVerifies /\ BearsToken
  /\ InputExpiration = now
  /\ InputSessionId \in denyList
  /\ call.ret = "false"

(***************************************************************************)
(* C7. Tamper sensitivity: validateToken returns false for an issued token *)
(* in which one character of the signature segment has been replaced by a  *)
(* different character.                                                    *)
(***************************************************************************)
C7_TamperRejected ==
  (Validated /\ \E k \in 1..Len(issued) : call.input \in Tampered(issued[k].encoded))
    => call.ret = "false"

(***************************************************************************)
(* C8. Malformed structure is rejected: validateToken does not accept a    *)
(* string that is not exactly two non-empty parts around one separator.    *)
(***************************************************************************)
C8_MalformedRejected == (Validated /\ ~WellFormed) => call.ret # "true"

(***************************************************************************)
(* C9. validateToken of the empty string returns false at once: nothing is *)
(* verified and the store is not called.                                   *)
(***************************************************************************)
C9_EmptyInput ==
  (Validated /\ call.input = <<>>) => (call.ret = "false" /\ call.calls = <<>>)

C9_Witness == Validated /\ call.input = <<>> /\ call.ret = "false"

(***************************************************************************)
(* C10. revokeToken of a bare session id calls addToDenyList once, with    *)
(* that id and the current time, and raises no error.                      *)
(***************************************************************************)
BareSessionIds == {SessionIdText(k) : k \in 1..MaxTokens} \cup {NeverIssuedId}

StoreCalls == SelectSeq(call.calls, LAMBDA c : c.fn \in {"addToDenyList", "isOnDenyList"})

C11_ReturnsStoreAnswer ==
  (Revoked /\ "addToDenyList" \in StepNames) =>
    /\ call.answer \in {"true", "false"}
    /\ call.ret = call.answer

C11_Witness ==
  /\ Revoked /\ "addToDenyList" \in StepNames
  /\ call.answer = "false" /\ call.ret = "false"
  /\ \E k \in 1..Len(issued) : call.input = issued[k].encoded

(***************************************************************************)
(* C12. revokeToken of the empty string returns false, does not call       *)
(* addToDenyList and leaves the deny list as it was.                       *)
(***************************************************************************)
C12_EmptyRevoke ==
  [][(call = NoCall /\ call'.op = "revokeToken" /\ call'.input = <<>>) =>
       /\ call'.ret = "false"
       /\ call'.calls = <<>>
       /\ denyList' = denyList]_vars

C12_Witness ==
  /\ Revoked /\ call.input = <<>>
  /\ call.ret = "false" /\ call.calls = <<>>
  /\ denyList # {}

C14_WireFormat ==
  call.op = "createToken" =>
    LET parts == Split(call.value, 1)
        decoded == JsonParse(Base64Decode(parts[1]))
    IN  /\ Len(parts) = 2
        /\ parts[1] # <<>>
        /\ parts[2] # <<>>
        /\ decoded.ok
        /\ decoded.isObject
        /\ decoded.obj = Token(JsString(call.args.sessionId), call.args.userId,
                               JsNumber(call.args.expirationDate))
        /\ parts[2] = Base64Encode(SignBytes(privateKey, parts[1]))

C14_Witness ==
  /\ call.op = "createToken"
  /\ call.args.userId.t = "string"
  /\ call.args.expirationDate = MaxTime
  /\ Len(Split(call.value, 1)) = 2

RejectedForGood(unparsedToken) ==
  LET r == validateToken(unparsedToken, FALSE)
  IN  /\ r.ret = "false"
      /\ \E i \in 1..Len(r.calls) : r.calls[i].fn = "compareExpiration"

\* the record validateToken decodes from the string
DecodedOf(unparsedToken) == decodeToken(parseToken(unparsedToken).token)

\* what validateToken answers for a decoded record whose signature verified
RejectsDecoded(decodedToken) ==
  \/ isExpired(decodedToken, now)
  \/ ~notDenied(isOnDenyList(decodedToken.obj.sessionId))

C16_RejectionPermanent ==
  [][(now' # now \/ denyList' # denyList) =>
       \A unparsedToken \in {t \in IssuedStrings : RejectedForGood(t)} :
         \A decodedToken \in {DecodedOf(unparsedToken)} :
           RejectsDecoded(decodedToken)']_vars

C16_Witness ==
  /\ Validated /\ SignatureVerifies /\ BearsToken
  /\ InputSessionId \in revoked
  /\ InputExpiration < now
  /\ call.ret = "false"
  /\ \E k \in 1..Len(issued) : call.input = issued[k].encoded

(***************************************************************************)
(* Reading an evaluation.                                                  *)
(***************************************************************************)
SyncLog(e) == SelectSeq(evals[e].log, LAMBDA c : c.kind = "sync")
AsyncLog(e) == SelectSeq(evals[e].log, LAMBDA c : c.kind = "async")

\* the Ruleset is the one the evaluation was called on
Unchanged(e) == evals[e].changes = 0

\* what the rules of a collection return for the user data of an evaluation
Accepts(rules, e) == \A i \in 1..Len(rules) : ApplyRule(rules[i], evals[e].userData)

\* every invocation but the last one returned true
OnlyLastMayFail(log) == \A i \in 1..(Len(log) - 1) : log[i].result = "true"

\* the invocations are those of the first rules of the collection, in order
InInsertionOrder(log, rules) ==
  /\ Len(log) <= Len(rules)
  /\ \A i \in 1..Len(log) : log[i].rule = rules[i]

(***************************************************************************)
(* C17. validateUser: the sync rules are invoked before any async rule; an *)
(* async rule is invoked only when every sync rule of the Ruleset the call *)
(* was made on has been invoked and returned true; when a sync rule        *)
(* returns false, no async rule is invoked and the result is false.        *)
(***************************************************************************)
C17_SyncBeforeAsync ==
  \A e \in EvalIds :
    evals[e].op = "validateUser" =>
      /\ evals[e].log = SyncLog(e) \o AsyncLog(e)
      /\ \A i \in 1..Len(SyncLog(e)) :
           SyncLog(e)[i].result =
             Bool(ApplyRule(SyncLog(e)[i].rule, evals[e].userData))
      /\ AsyncLog(e) # <<>> =>
           /\ \A i \in 1..Len(SyncLog(e)) : SyncLog(e)[i].result = "true"
           /\ Unchanged(e) =>
                /\ Len(SyncLog(e)) = Len(syncRules)
                /\ InInsertionOrder(SyncLog(e), syncRules)
      /\ (\E i \in 1..Len(SyncLog(e)) : SyncLog(e)[i].result = "false") =>
           /\ AsyncLog(e) = <<>>
           /\ evals[e].status = "resolved"
           /\ evals[e].result = "false"
      /\ (Unchanged(e) /\ ~Accepts(syncRules, e)) =>
           /\ AsyncLog(e) = <<>>
           /\ evals[e].result = "false"

C17_Witness ==
  \E e \in EvalIds :
    /\ evals[e].op = "validateUser"
    /\ Len(SyncLog(e)) >= 2
    /\ SyncLog(e)[Len(SyncLog(e))].result = "false"
    /\ asyncRules # <<>>
    /\ AsyncLog(e) = <<>>
    /\ evals[e].result = "false"

(***************************************************************************)
(* C18. validateUser, on a Ruleset that is not changed during the call,    *)
(* resolves to true if and only if every sync rule and every async rule    *)
(* returns true for the user data: to true when a collection is empty and  *)
(* the rules of the other all return true, to false when one rule returns  *)
(* false.                                                                  *)
(***************************************************************************)
C18_AllRulesDecide ==
  \A e \in EvalIds :
    (evals[e].op = "validateUser" /\ evals[e].status = "resolved" /\ Unchanged(e)) =>
      evals[e].result = Bool(Accepts(syncRules, e) /\ Accepts(asyncRules, e))

C18_Witness ==
  \E e \in EvalIds :
    /\ evals[e].op = "validateUser" /\ evals[e].status = "resolved"
    /\ Unchanged(e)
    /\ syncRules = <<>>
    /\ Len(asyncRules) >= 2
    /\ evals[e].result = "true"

(***************************************************************************)
(* C19. evaluateSync invokes the sync rules in insertion order and returns *)
(* false at the first rule that returns false, no rule after that one      *)
(* being invoked; it returns true when there is no rule or every rule      *)
(* returns true.                                                           *)
(***************************************************************************)
C19_SyncShortCircuit ==
  \A e \in EvalIds :
    evals[e].op = "evaluateSync" =>
      LET log == evals[e].log
      IN  /\ evals[e].status = "resolved"
          /\ Unchanged(e)
          /\ InInsertionOrder(log, syncRules)
          /\ \A i \in 1..Len(log) :
               log[i] = Invoked("sync", syncRules[i],
                                Bool(ApplyRule(syncRules[i], evals[e].userData)))
          /\ OnlyLastMayFail(log)
          /\ evals[e].result = Bool(Accepts(syncRules, e))
          /\ evals[e].result = "true" => Len(log) = Len(syncRules)
          /\ evals[e].result = "false" => log[Len(log)].result = "false"

C19_Witness ==
  \E e \in EvalIds :
    /\ evals[e].op = "evaluateSync"
    /\ Len(syncRules) = 3
    /\ Len(evals[e].log) = 2
    /\ evals[e].log[1].result = "true"
    /\ evals[e].log[2].result = "false"
    /\ ApplyRule(syncRules[3], evals[e].userData)
    /\ evals[e].result = "false"

(***************************************************************************)
(* C20. evaluateAsync invokes the async rules in insertion order and       *)
(* resolves to false at the first rule that resolves to false, no rule     *)
(* after that one being invoked; it resolves to true when there is no rule *)
(* or every rule resolves to true.                                         *)
(***************************************************************************)
C20_AsyncShortCircuit ==
  \A e \in EvalIds :
    evals[e].op = "evaluateAsync" =>
      LET log == evals[e].log
      IN  /\ OnlyLastMayFail(log)
          /\ \A i \in 1..Len(log) : log[i].kind = "async"
          /\ evals[e].status = "awaiting" =>
               (log # <<>> /\ log[Len(log)].result = "pending")
          /\ evals[e].status = "resolved" =>
               /\ \A i \in 1..Len(log) :
                    log[i].result = Bool(ApplyRule(log[i].rule, evals[e].userData))
               /\ evals[e].result = "false" <=>
                    (log # <<>> /\ log[Len(log)].result = "false")
          /\ Unchanged(e) =>
               /\ InInsertionOrder(log, asyncRules)
               /\ evals[e].status = "resolved" =>
                    /\ evals[e].result = Bool(Accepts(asyncRules, e))
                    /\ evals[e].result = "true" => Len(log) = Len(asyncRules)

C20_Witness ==
  \E e \in EvalIds :
    /\ evals[e].op = "evaluateAsync" /\ evals[e].status = "resolved"
    /\ Unchanged(e)
    /\ Len(asyncRules) >= 2
    /\ Len(evals[e].log) = 1
    /\ evals[e].result = "false"

(***************************************************************************)
(* C21. evaluateAsync is sequential: in one evaluateAsync or validateUser  *)
(* call at most one async rule is in flight at any time; a rule is invoked *)
(* only when every rule invoked before it has resolved, and the call is    *)
(* suspended exactly while the one rule it awaits is in flight.            *)
(***************************************************************************)
InFlight(e) == {i \in 1..Len(evals[e].log) : evals[e].log[i].result = "pending"}

C21_OneRuleInFlight ==
  \A e \in EvalIds :
    /\ Cardinality(InFlight(e)) <= 1
    /\ InFlight(e) \subseteq {Len(evals[e].log)}
    /\ \A i \in InFlight(e) : evals[e].log[i].kind = "async"
    /\ evals[e].status = "awaiting" <=> InFlight(e) # {}
    /\ \A i \in 1..(Len(AsyncLog(e)) - 1) : AsyncLog(e)[i].result = "true"

C21_Witness ==
  \E e \in EvalIds :
    /\ evals[e].status = "awaiting"
    /\ Len(AsyncLog(e)) >= 2
    /\ AsyncLog(e)[1].result = "true"
    /\ AsyncLog(e)[Len(AsyncLog(e))].result = "pending"
    /\ Len(asyncRules) > evals[e].pos

(***************************************************************************)
(* C22. A rule reference appears at most once in each collection, after    *)
(* construction from arrays that repeat a reference and after any sequence *)
(* of add, delete and clear; adding a reference that is present changes    *)
(* nothing. An evaluation during which the Ruleset is changed at most once *)
(* invokes a given rule at most once; a rule invoked twice in one          *)
(* evaluation is an async rule that left the collection and was added      *)
(* again while the evaluation was suspended.                               *)
(***************************************************************************)
NoDuplicates(set) == \A i, j \in 1..Len(set) : set[i] = set[j] => i = j

\* the invocations of a log that repeat an earlier one
Repeated(log) ==
  {j \in 1..Len(log) :
     \E i \in 1..(j - 1) : log[i].kind = log[j].kind /\ log[i].rule = log[j].rule}

AppearsOnce ==
  /\ NoDuplicates(syncRules)
  /\ NoDuplicates(asyncRules)
  /\ \A rule \in Members(syncRules) : addSyncRule(rule) = syncRules
  /\ \A rule \in Members(asyncRules) : addAsyncRule(rule) = asyncRules

C23_ReferenceModel ==
  \A rule \in RuleRefs :
    /\ hasSyncRule(rule) <=> rule \in reference.sync
    /\ hasAsyncRule(rule) <=> rule \in reference.async

C23_Witness ==
  /\ syncRules = <<2, 1>>
  /\ asyncRules = <<3>>
  /\ hasSyncRule(1) /\ ~hasAsyncRule(1)
  /\ hasAsyncRule(3) /\ ~hasSyncRule(3)
  /\ reference = [sync |-> {1, 2}, async |-> {3}]

(***************************************************************************)
(* C24. deleteSyncRule(r) and deleteAsyncRule(r) return true if and only   *)
(* if r was in the collection immediately before the call; after the call  *)
(* r is absent, and a second delete of the same reference returns false.   *)
(***************************************************************************)
\* what a delete call made in this state returns and leaves, and what a second
\* delete of the same reference then returns
C24_DeleteReturns ==
  \A rule \in RuleRefs :
    LET sync == deleteSyncRule(rule)
        async == deleteAsyncRule(rule)
    IN  /\ sync.result <=> rule \in reference.sync
        /\ async.result <=> rule \in reference.async
        /\ rule \notin Members(sync.rules)
        /\ rule \notin Members(async.rules)
        /\ Members(sync.rules) = reference.sync \ {rule}
        /\ Members(async.rules) = reference.async \ {rule}
        /\ ~SetDeleteReturns(sync.rules, rule)
        /\ ~SetDeleteReturns(async.rules, rule)
        /\ SetDelete(sync.rules, rule) = sync.rules
        /\ SetDelete(async.rules, rule) = async.rules

\* sync rule 1 was deleted from <<1, 2>>, and async rule 1 from <<1, 2>>
\* while an evaluation awaited it
C24_Witness ==
  \E e \in EvalIds :
    /\ syncRules = <<2>>
    /\ reference.sync = {2}
    /\ ~deleteSyncRule(1).result
    /\ evals[e].status = "awaiting"
    /\ evals[e].changes = 1
    /\ evals[e].log = <<Invoked("async", 1, "pending")>>
    /\ asyncRules = <<2>>
    /\ reference.async = {2}
    /\ ~deleteAsyncRule(1).result

(***************************************************************************)
(* C25. Decoding fails with an error whenever the decoded bytes are not    *)
(* valid JSON or the decoded record lacks one of the fields sessionId,     *)
(* userId, expirationTime: a call that decodes such a payload ends in an   *)
(* error, and neither the expiration comparison nor the TokenStore is      *)
(* given the record.                                                       *)
(***************************************************************************)
Decoded == "decodeToken" \in StepNames

C25_MalformedRejected ==
  (Decoded /\ ~call.facts.hasFields) =>
    /\ call.ret \in {"SyntaxError", "TypeError"}
    /\ "compareExpiration" \notin StepNames
    /\ StoreCalls = <<>>

(***************************************************************************)
(* C26. Codec corruption is fatal: when a payload passes the signature     *)
(* verification and is not the encoding of a Token, validateToken raises   *)
(* an error, does not return false, and does not query the TokenStore.     *)
(***************************************************************************)
C26_CorruptionFatal ==
  (Validated /\ SignatureVerifies /\ ~call.facts.hasFields) =>
    /\ call.ret \notin {"true", "false"}
    /\ StoreCalls = <<>>

(***************************************************************************)
(* C27. A failure of the store is propagated without retry: when           *)
(* isOnDenyList raises during validateToken, or addToDenyList raises       *)
(* during revokeToken, the error of the store reaches the caller, the call *)
(* produces no boolean, and the store method was called exactly once in    *)
(* the call.                                                               *)
(***************************************************************************)
StoreRaised == call.answer = "raised"

C27_StoreFailurePropagated ==
  /\ StoreRaised =>
       /\ call.ret = "StoreError"
       /\ Len(StoreCalls) = 1
       /\ call.calls[Len(call.calls)] = StoreCalls[1]
       /\ Validated => StoreCalls[1].fn = "isOnDenyList"
       /\ Revoked => StoreCalls[1].fn = "addToDenyList"
  /\ call.ret = "StoreError" => StoreRaised
  /\ call.ret \in {"true", "false"} => ~StoreRaised
  /\ Len(StoreCalls) <= 1

C27_Witness ==
  /\ Validated
  /\ StoreRaised
  /\ call.ret = "StoreError"
  /\ InputExpiration = now
  /\ InputSessionId.s \in {r.s : r \in revoked}

RejectedForExpiry ==
  /\ Validated
  /\ call.ret = "false"
  /\ call.calls # <<>>
  /\ call.calls[Len(call.calls)].fn = "compareExpiration"

C29_StrictBoundary ==
  (Validated /\ SignatureVerifies /\ BearsToken) =>
    /\ RejectedForExpiry <=> InputExpiration < now
    /\ InputExpiration = now =>
         /\ "isOnDenyList" \in StepNames
         /\ call.answer = Bool(InputSessionId \in denyList)
         /\ call.ret = Bool(InputSessionId \notin denyList)

C29_Witness ==
  /\ Validated /\ SignatureVerifies /\ BearsToken
  /\ InputExpiration = now
  /\ now > 0
  /\ "isOnDenyList" \in StepNames
  /\ call.ret = "true"

(***************************************************************************)
(* C30. The deny list is consulted last: in every validateToken call       *)
(* isOnDenyList is called at most once, as the last step, after the        *)
(* parsing, the verification, the decoding and the expiration comparison,  *)
(* and only for a token whose signature verified and whose expirationTime  *)
(* is not in the past; for an expired token the store is never queried.    *)
(***************************************************************************)
C30_DenyListLast ==
  Validated =>
    /\ Len(StoreCalls) <= 1
    /\ StoreCalls # <<>> =>
         /\ [i \in 1..Len(call.calls) |-> call.calls[i].fn] =
              <<"parseToken", "verifyToken", "decodeToken", "compareExpiration",
                "isOnDenyList">>
         /\ SignatureVerifies
         /\ BearsToken
         /\ InputExpiration >= now
         /\ StoreCalls[1].sessionId = InputSessionId
    /\ (BearsToken /\ InputExpiration < now) => StoreCalls = <<>>

C30_Witness ==
  /\ Validated /\ SignatureVerifies /\ BearsToken
  /\ InputExpiration < now
  /\ InputSessionId \in denyList
  /\ "compareExpiration" \in StepNames
  /\ StoreCalls = <<>>
  /\ call.ret = "false"

(***************************************************************************)
(* C31. validateToken is read-only with respect to the revocation state:   *)
(* no validateToken call, whatever its input and outcome, calls            *)
(* addToDenyList or changes the deny list; the session ids on the deny     *)
(* list are the ones revokeToken put there.                                *)
(***************************************************************************)
C31_ValidateReadOnly ==
  /\ denyList = revoked
  /\ Validated =>
       /\ \A i \in 1..Len(call.calls) : call.calls[i].fn # "addToDenyList"
       /\ \A i \in 1..Len(StoreCalls) : StoreCalls[i].fn = "isOnDenyList"
  /\ call.op = "createToken" => StoreCalls = <<>>

C31_Witness ==
  /\ Validated /\ SignatureVerifies /\ BearsToken
  /\ call.ret = "true"
  /\ denyList # {}
  /\ InputSessionId \notin denyList
  /\ StoreCalls = <<StoreCall("isOnDenyList", InputSessionId, 0)>>

(***************************************************************************)
(* C32. revokeToken does not authenticate its input: no revokeToken call   *)
(* verifies a signature, and a call with a non-empty string whose payload  *)
(* segment decodes to a record with session id S and whose signature       *)
(* segment is missing or does not verify calls addToDenyList(S, now); when *)
(* the store records it, S is on the deny list, whether S is the id of an  *)
(* issued session or not.                                                  *)
(***************************************************************************)
C32_RevokeUnauthenticated ==
  /\ Revoked => "verifyToken" \notin StepNames
  /\ (Revoked /\ call.input # <<>> /\ BearsToken /\ ~SignatureVerifies) =>
       /\ \E i \in 1..Len(call.calls) :
            call.calls[i] = StoreCall("addToDenyList", InputSessionId, now)
       /\ call.ret = call.answer
       /\ call.answer = "true" => InputSessionId \in denyList

\* the session of an issued token revoked with its payload alone
C32_Witness ==
  /\ Revoked /\ BearsToken
  /\ ~HasSignature /\ ~SignatureVerifies
  /\ \E k \in 1..Len(issued) :
       /\ call.input = PayloadOf(issued[k].encoded)
       /\ InputSessionId = issued[k].token.sessionId
  /\ call.ret = "true"
  /\ InputSessionId \in denyList

(***************************************************************************)
(* C33. Revocation is per session: the tokens createToken returned bear    *)
(* session ids that differ from each other, a revokeToken call puts no     *)
(* session id on the deny list but the one of its token, and               *)
(* validateToken of an issued token returns true while the token is        *)
(* unexpired and no revokeToken call has returned true for its own         *)
(* session id, whatever other tokens, of the same user or not, have been   *)
(* revoked.                                                                *)
(***************************************************************************)
OthersRevoked(k) ==
  \E j \in 1..Len(issued) :
    /\ j # k
    /\ issued[j].token.userId = issued[k].token.userId
    /\ issued[j].token.sessionId \in denyList

C33_PerSession ==
  /\ [](\A j, k \in 1..Len(issued) :
          j # k => issued[j].token.sessionId # issued[k].token.sessionId)
  /\ [](\A k \in 1..Len(issued) :
          ( /\ Validated
            /\ call.input = issued[k].encoded
            /\ issued[k].token.expirationTime.n > now
            /\ issued[k].token.sessionId \notin revoked )
          => call.ret = "true")
  /\ [][(call = NoCall /\ call'.op = "revokeToken") =>
          /\ denyList \subseteq denyList'
          /\ denyList' \subseteq denyList \cup {call'.facts.sessionId}]_vars

\* a token passes after another token of the same user was revoked
C33_Witness ==
  /\ Validated
  /\ call.ret = "true"
  /\ \E k \in 1..Len(issued) :
       /\ call.input = issued[k].encoded
       /\ OthersRevoked(k)
       /\ issued[k].token.sessionId \notin denyList

(***************************************************************************)
(* C34. evaluateAsync observes the additions made while it is suspended:   *)
(* when async rules are added to the Ruleset while an evaluateAsync or     *)
(* validateUser call awaits a rule, the call invokes the rules in the      *)
(* order of the collection as it is now, an added rule after every rule    *)
(* ahead of it resolved to true; the call resolves to true only after it   *)
(* invoked every added rule and the rule resolved to true, and its result  *)
(* is the one of the rules of the collection at the time it resolves, not  *)
(* of the rules that were there when it was called.                        *)
(***************************************************************************)
\* the rules added since the call started: additions are the only changes of
\* the Ruleset during a call here, and a rule added goes to the end
AddedDuring(e) ==
  {asyncRules[i] : i \in (Len(asyncRules) - evals[e].changes + 1)..Len(asyncRules)}

PresentAtStart(e) == SubSeq(asyncRules, 1, Len(asyncRules) - evals[e].changes)

C34_AdditionsObserved ==
  \A e \in EvalIds :
    evals[e].changes >= 1 =>
      LET log == AsyncLog(e)
      IN  /\ evals[e].changes <= Len(asyncRules)
          /\ InInsertionOrder(log, asyncRules)
          /\ \A i \in 1..Len(log) :
               log[i].rule \in AddedDuring(e) =>
                 \A j \in 1..(i - 1) : log[j].result = "true"
          /\ evals[e].status = "awaiting" => log[Len(log)].result = "pending"
          /\ evals[e].status = "resolved" =>
               /\ evals[e].result = Bool(Accepts(asyncRules, e))
               /\ evals[e].result = "true" =>
                    \A rule \in AddedDuring(e) :
                      \E i \in 1..Len(log) : log[i] = Invoked("async", rule, "true")

\* the rules that were there at the call all resolved to true, and the call
\* resolved to false at a rule added while it was suspended
C34_Witness ==
  \E e \in EvalIds :
    /\ evals[e].op = "evaluateAsync"
    /\ evals[e].status = "resolved"
    /\ evals[e].changes >= 1
    /\ Len(PresentAtStart(e)) >= 1
    /\ Accepts(PresentAtStart(e), e)
    /\ evals[e].result = "false"
    /\ AsyncLog(e)[Len(AsyncLog(e))].rule \in AddedDuring(e)

(***************************************************************************)
(* C35. evaluateAsync observes the removals made while it is suspended:    *)
(* a call invokes an async rule only when the rule is in the collection    *)
(* at that time, so a rule deleted or cleared before its turn is never     *)
(* invoked; the rules the call invoked that are still in the collection    *)
(* are its first rules, in order, and the call resolves from the rules     *)
(* that remain: to true only when each of them was invoked and resolved    *)
(* to true, to false only at a rule that resolved to false.                *)
(***************************************************************************)
\* the invocations of the rules that are still in the collection
Remaining(e) ==
  SelectSeq(AsyncLog(e), LAMBDA c : c.rule \in Members(asyncRules))

C35_RemovalsObserved ==
  /\ [](\A e \in EvalIds :
          LET log == AsyncLog(e)
          IN  /\ InInsertionOrder(Remaining(e), asyncRules)
              /\ OnlyLastMayFail(log)
              /\ evals[e].status = "resolved" =>
                   /\ evals[e].result = "false" <=>
                        (evals[e].log # <<>>
                           /\ evals[e].log[Len(evals[e].log)].result = "false")
                   /\ (evals[e].result = "true" /\ evals[e].op # "evaluateSync") =>
                        /\ Len(Remaining(e)) = Len(asyncRules)
                        /\ \A i \in 1..Len(log) : log[i].result = "true")
  /\ [][\A e \in EvalIds :
          LET before == evals[e].log
              after == evals'[e].log
          IN  (Len(after) > Len(before) /\ after[Len(after)].kind = "async") =>
                /\ asyncRules' = asyncRules
                /\ after[Len(after)].rule \in Members(asyncRules)
                /\ after[Len(after)].rule \notin
                     {before[i].rule : i \in {j \in 1..Len(before) : before[j].kind = "async"}}
                /\ \A i \in 1..Len(before) : after[i].result = "true"]_vars

\* rule 1 of two or more rules resolved to true for user data 3, the other
\* rules were cleared or deleted meanwhile, and the call resolved to true
\* with the one invocation
C35_Witness ==
  \E e \in EvalIds :
    /\ evals[e].op = "evaluateAsync"
    /\ evals[e].status = "resolved"
    /\ evals[e].changes >= 1
    /\ evals[e].userData = 3
    /\ evals[e].log = <<Invoked("async", 1, "true")>>
    /\ asyncRules = <<1>>
    /\ evals[e].result = "true"

(***************************************************************************)
(* C36. Overlapping evaluations do not interfere: when two validateUser    *)
(* or evaluateAsync calls on the same Ruleset, unchanged meanwhile, are in *)
(* progress at once and the promises of their rules resolve in any order,  *)
(* each call invokes the async rules in insertion order from the first     *)
(* rule, stops at its own first false, and resolves to the result, with    *)
(* the invocations, it has when it runs alone.                             *)
(***************************************************************************)
\* an evaluation run to its end with nothing else happening meanwhile
RECURSIVE Complete(_)
Complete(e) == IF e.status = "awaiting" THEN Complete(resumeAsync(e)) ELSE e

\* the call made on the Ruleset as it is, and run alone
Alone(op, userData) ==
  Complete(IF op = "validateUser" THEN validateUser(userData)
           ELSE evaluateAsync(Started("evaluateAsync", userData)))

C36_NoInterference ==
  \A e \in OverlappingIds :
    evals[e].op \in {"validateUser", "evaluateAsync"} =>
      LET alone == Alone(evals[e].op, evals[e].userData)
          log == evals[e].log
      IN  /\ Unchanged(e)
          /\ InInsertionOrder(AsyncLog(e), asyncRules)
          /\ OnlyLastMayFail(log)
          /\ Len(log) <= Len(alone.log)
          /\ \A i \in 1..Len(log) :
               /\ log[i].rule = alone.log[i].rule
               /\ log[i].kind = alone.log[i].kind
               /\ log[i].result \in {alone.log[i].result, "pending"}
          /\ Complete(evals[e]) = alone
          /\ evals[e].status = "resolved" =>
               /\ evals[e].result = alone.result
               /\ log = alone.log
               /\ evals[e].result =
                    Bool(/\ evals[e].op = "validateUser" => Accepts(syncRules, e)
                         /\ Accepts(asyncRules, e))

\* a validateUser call awaits the second async rule while an evaluateAsync
\* call with other user data, made before it went on, awaits the first
C36_Witness ==
  /\ evals[1].op = "validateUser"
  /\ evals[1].status = "awaiting"
  /\ Len(AsyncLog(1)) = 2
  /\ evals[2].op = "evaluateAsync"
  /\ evals[2].status = "awaiting"
  /\ Len(AsyncLog(2)) = 1
  /\ evals[1].userData # evals[2].userData
  /\ ~Accepts(asyncRules, 2)

====
